---- MODULE Spec2Model ----
(***************************************************************************)
(* The incremental artifact scanner of claude_artifact_manager/manager.py: *)
(* ArtifactManager.scan_artifacts, _load_cache, _save_cache,               *)
(* update_dependencies and run_command, over a small file system.          *)
(*                                                                         *)
(* Text (file names, import specifiers, tag comments) is a tuple of        *)
(* one-character strings, so that startswith, rfind, split, strip, title   *)
(* and the ordering of sorted() are computed and not assumed.              *)
(***************************************************************************)
EXTENDS Integers, Sequences, FiniteSets, TLC

(***************************************************************************)
(* Bounds of the model.                                                    *)
(***************************************************************************)
\* st_mtime values a file can carry: 1..MaxMtime
MaxMtime == 2
\* st_size values a file can carry: 1..MaxSize
MaxSize == 2
\* scans started in one behaviour
MaxScans == 2
\* changes made to the file system from outside between scans
MaxEnv == 1
\* failing external operations (install command, manifest write, cache write)
MaxFaults == 1

(***************************************************************************)
(* Characters.  Alphabet lists the characters of file names in ascending   *)
(* code point order, which is the order Python compares str by.            *)
(***************************************************************************)
Alphabet ==
    << " ", "-", ".",
       "A", "B", "C", "E", "F", "H", "I", "J", "N", "O", "R", "S", "T", "U", "X",
       "_",
       "a", "b", "c", "e", "f", "h", "i", "j", "n", "o", "r", "s", "t", "u", "x" >>

Ord(c) == CHOOSE i \in 1..Len(Alphabet) : Alphabet[i] = c

Lowers == << "a", "b", "c", "e", "f", "h", "i", "j", "n", "o", "r", "s", "t", "u", "x" >>
Uppers == << "A", "B", "C", "E", "F", "H", "I", "J", "N", "O", "R", "S", "T", "U", "X" >>

IsLower(c) == \E i \in 1..Len(Lowers) : Lowers[i] = c
IsUpper(c) == \E i \in 1..Len(Uppers) : Uppers[i] = c
IsCased(c) == IsLower(c) \/ IsUpper(c)
ToUpper(c) == IF IsLower(c) THEN Uppers[CHOOSE i \in 1..Len(Lowers) : Lowers[i] = c] ELSE c
ToLower(c) == IF IsUpper(c) THEN Lowers[CHOOSE i \in 1..Len(Uppers) : Uppers[i] = c] ELSE c

\* str.startswith('.')
StartsWithDot(s) == Len(s) > 0 /\ s[1] = "."

\* str.rfind('.'), 0-based as in Python, -1 when there is none
RFindDot(s) ==
    IF \E i \in 1..Len(s) : s[i] = "."
    THEN (CHOOSE i \in 1..Len(s) : s[i] = "." /\ \A j \in (i+1)..Len(s) : s[j] # ".") - 1
    ELSE -1

\* PurePath.suffix
Suffix(name) ==
    LET i == RFindDot(name)
    IN  IF 0 < i /\ i < Len(name) - 1 THEN SubSeq(name, i + 1, Len(name)) ELSE <<>>

\* PurePath.stem
Stem(name) ==
    LET i == RFindDot(name)
    IN  IF 0 < i /\ i < Len(name) - 1 THEN SubSeq(name, 1, i) ELSE name

\* str.replace("-", " ")
ReplaceDash(s) == [i \in 1..Len(s) |-> IF s[i] = "-" THEN " " ELSE s[i]]

\* str.title(): a cased character is upper-cased when it follows an uncased
\* one (or starts the string) and lower-cased otherwise
Title(s) ==
    [i \in 1..Len(s) |->
        IF i = 1 \/ ~IsCased(s[i-1]) THEN ToUpper(s[i]) ELSE ToLower(s[i])]

\* str < str: lexicographic by code point, a proper prefix first
RECURSIVE StrLess(_, _)
StrLess(s, t) ==
    IF Len(t) = 0 THEN FALSE
    ELSE IF Len(s) = 0 THEN TRUE
    ELSE IF s[1] = t[1] THEN StrLess(Tail(s), Tail(t))
    ELSE Ord(s[1]) < Ord(t[1])

\* sorted(paths): the paths of one directory compare by their names
RECURSIVE Sorted(_)
Sorted(S) ==
    IF S = {} THEN <<>>
    ELSE LET m == CHOOSE x \in S : \A y \in S \ {x} : StrLess(x, y)
         IN  <<m>> \o Sorted(S \ {m})

RECURSIVE Insert(_, _)
\* x put before the first element of an ascending list that is not below it
Insert(x, seq) ==
    IF seq = <<>> THEN <<x>>
    ELSE IF StrLess(x, Head(seq)) THEN <<x>> \o seq
    ELSE <<Head(seq)>> \o Insert(x, Tail(seq))

\* a sorted() that leaves the list as it finds it
SortedList_AsListed(seq) == seq

RECURSIVE SortedList(_)
\* sorted(iterable) of paths in one directory: ascending by name
SortedList(seq) ==
    IF seq = <<>> THEN <<>> ELSE Insert(Head(seq), SortedList(Tail(seq)))

\* the elements of a list, as set(list) or set.update(list) collects them
SetOf(seq) == {seq[i] : i \in 1..Len(seq)}

(***************************************************************************)
(* Names of the entries of claude_artifacts.                               *)
(***************************************************************************)
\* "a.js" and "a.jsx": two files with one stem
NameJs == <<"a", ".", "j", "s">>
NameJsx == <<"a", ".", "j", "s", "x">>
\* ".h.js", a hidden file
NameHidden == <<".", "h", ".", "j", "s">>
\* "sub", a subdirectory
NameSub == <<"s", "u", "b">>
\* ".artifact_cache.json", the name of cache_path inside artifacts_dir
CacheName == <<".", "a", "r", "t", "i", "f", "a", "c", "t", "_", "c", "a", "c", "h", "e", ".", "j", "s", "o", "n">>

RegularNames == {NameJs, NameJsx}
Names == RegularNames \cup {NameHidden, NameSub}

(***************************************************************************)
(* Import specifiers.                                                      *)
(***************************************************************************)
SpecPkg == <<"p", "k", "g">>
SpecClsx == <<"c", "l", "s", "x">>
\* "./l", a relative import
SpecLocal == <<".", "/", "l">>
\* "x", a package whose name is a single character
SpecX == <<"x">>

\* the keys of self.base_dependencies
base_dependencies ==
    { <<"@", "r", "a", "d", "i", "x", "-", "u", "i", "/", "r", "e", "a", "c", "t", "-", "i", "c", "o", "n", "s">>,
      <<"c", "l", "a", "s", "s", "-", "v", "a", "r", "i", "a", "n", "c", "e", "-", "a", "u", "t", "h", "o", "r", "i", "t", "y">>,
      <<"c", "l", "s", "x">>,
      <<"l", "u", "c", "i", "d", "e", "-", "r", "e", "a", "c", "t">>,
      <<"t", "a", "i", "l", "w", "i", "n", "d", "-", "m", "e", "r", "g", "e">>,
      <<"t", "a", "i", "l", "w", "i", "n", "d", "c", "s", "s", "-", "a", "n", "i", "m", "a", "t", "e">>,
      <<"@", "r", "a", "d", "i", "x", "-", "u", "i", "/", "r", "e", "a", "c", "t", "-", "s", "l", "o", "t">> }

(***************************************************************************)
(* File contents, by what the scan reads off them: whether the bytes       *)
(* decode (and the file opens), whether pyjsparser.parse accepts the text, *)
(* the import statements in textual order, and the body of the first       *)
(* "@tags:" comment.                                                       *)
(***************************************************************************)
FromStmt(source) == [form |-> "from", source |-> source]
BareStmt(source) == [form |-> "bare", source |-> source]

\* export default () => null;
ContentPlain ==
    [decodable |-> TRUE, parses |-> TRUE, stmts |-> <<>>,
     hasTags |-> FALSE, tagBody |-> <<>>]
\* /* @tags: ui, x */ import p from 'pkg'; import './l'; import x from 'x';
ContentDeps ==
    [decodable |-> TRUE, parses |-> TRUE,
     stmts |-> <<FromStmt(SpecPkg), BareStmt(SpecLocal), FromStmt(SpecX)>>,
     hasTags |-> TRUE, tagBody |-> <<"u", "i", ",", " ", "x">>]
\* import clsx from 'clsx'; import l from './l'; import 'pkg'; import x from 'x';
\* export default () => <div />;
ContentJsx ==
    [decodable |-> TRUE, parses |-> FALSE,
     stmts |-> <<FromStmt(SpecClsx), FromStmt(SpecLocal), BareStmt(SpecPkg),
                 FromStmt(SpecX)>>,
     hasTags |-> FALSE, tagBody |-> <<>>]
\* import p from 'pkg'; in a file that cannot be opened, or beside a byte that is
\* no UTF-8 text
ContentBinary ==
    [decodable |-> FALSE, parses |-> TRUE, stmts |-> <<FromStmt(SpecPkg)>>,
     hasTags |-> FALSE, tagBody |-> <<>>]

\* the text of ContentDeps in a file that open() is denied (chmod leaves the
\* modification time and the size as they are)
ContentLocked == [ContentDeps EXCEPT !.decodable = FALSE]

Contents == {ContentPlain, ContentDeps, ContentJsx, ContentBinary, ContentLocked}

RECURSIVE FilterSeq(_, _)
\* [x for x in seq if x in S]
FilterSeq(seq, S) ==
    IF seq = <<>> THEN <<>>
    ELSE (IF Head(seq) \in S THEN <<Head(seq)>> ELSE <<>>) \o FilterSeq(Tail(seq), S)

\* a structural extraction that keeps the relative sources too
AstImports_KeepsRelative(content) ==
    LET kept == FilterSeq(content.stmts,
                          {st \in SetOf(content.stmts) : st.source # <<>>})
    IN  [i \in 1..Len(kept) |-> kept[i].source]

\* the sources of the ImportDeclaration nodes that are non-empty and not relative
AstImports(content) ==
    LET keep == {st \in SetOf(content.stmts) :
                    st.source # <<>> /\ ~StartsWithDot(st.source)}
        kept == FilterSeq(content.stmts, keep)
    IN  [i \in 1..Len(kept) |-> kept[i].source]

\* the group ([^\.][^'"]+): a first character that is no dot, then one or more
RegexGroupMatches(source) == Len(source) >= 2 /\ source[1] # "."

\* re.findall of the two patterns: from-imports first, then bare imports
RegexImports(content) ==
    LET froms == FilterSeq(content.stmts,
                    {st \in SetOf(content.stmts) :
                        st.form = "from" /\ RegexGroupMatches(st.source)})
        bares == FilterSeq(content.stmts,
                    {st \in SetOf(content.stmts) :
                        st.form = "bare" /\ RegexGroupMatches(st.source)})
    IN  [i \in 1..Len(froms) |-> froms[i].source]
            \o [i \in 1..Len(bares) |-> bares[i].source]

\* imports: the structural parse, and the regex fallback when it raises
ExtractImports(content) ==
    IF content.parses THEN AstImports(content) ELSE RegexImports(content)

RECURSIVE SplitComma(_)
\* str.split(',')
SplitComma(s) ==
    IF \E i \in 1..Len(s) : s[i] = ","
    THEN LET i == CHOOSE k \in 1..Len(s) : s[k] = "," /\ \A j \in 1..(k-1) : s[j] # ","
         IN  <<SubSeq(s, 1, i - 1)>> \o SplitComma(SubSeq(s, i + 1, Len(s)))
    ELSE <<s>>

RECURSIVE Strip(_)
\* str.strip()
Strip(s) ==
    IF s = <<>> THEN s
    ELSE IF s[1] = " " THEN Strip(Tail(s))
    ELSE IF s[Len(s)] = " " THEN Strip(SubSeq(s, 1, Len(s) - 1))
    ELSE s

\* tags: [tag.strip() for tag in group(1).split(',')] if the comment is there
ExtractTags(content) ==
    IF content.hasTags
    THEN LET parts == SplitComma(content.tagBody)
         IN  [i \in 1..Len(parts) |-> Strip(parts[i])]
    ELSE <<>>

\* str(file_path.relative_to(root_dir)).replace(os.sep, '/')
RelativePath(name) == <<"claude_artifacts", "/">> \o name

ArtifactType(name) ==
    IF Suffix(name) \in {<<".", "j", "s", "x">>, <<".", "t", "s", "x">>}
    THEN "react" ELSE "vanilla"

\* artifact_data
ArtifactData(name, file_stat, content) ==
    [id |-> Stem(name),
     name |-> Title(ReplaceDash(Stem(name))),
     path |-> RelativePath(name),
     type |-> ArtifactType(name),
     mtime |-> file_stat.mtime,
     tags |-> ExtractTags(content)]

\* the entry stored in new_cache for a processed file
CacheEntry(name, file_stat, content) ==
    [mtime |-> file_stat.mtime,
     size |-> file_stat.size,
     dependencies |-> ExtractImports(content),
     data |-> ArtifactData(name, file_stat, content)]

(***************************************************************************)
(* The file system and the scan in progress.                               *)
(***************************************************************************)
VARIABLES
    dir,            \* claude_artifacts: entry name -> what is there
    cacheFile,      \* claude_artifacts/.artifact_cache.json
    manifestFile,   \* public/claude_artifacts_manifest.json
    packageJson,    \* package.json
    pc,             \* where scan_artifacts stands: idle, loop, read, manifest, save
    frame,          \* the local variables of scan_artifacts
    todo,           \* what is left of sorted(self.artifacts_dir.glob("*"))
    events,         \* what the running (or the last) scan did, in order
    result,         \* how the last scan ended, and what it returned
    prev,           \* the scan before: its result, events, frame, and the files it left
    envSince,       \* the file system was changed from outside since the last scan ended
    nScans,
    nEnv,
    nFaults

vars == <<dir, cacheFile, manifestFile, packageJson, pc, frame, todo, events,
          result, prev, envSince, nScans, nEnv, nFaults>>

Absent == [kind |-> "absent"]
DirEntry == [kind |-> "dir"]
FileEntry(mtime, size, content) ==
    [kind |-> "file", mtime |-> mtime, size |-> size, content |-> content]

\* an empty dict
EmptyMap == <<>>
\* d[k] = v
Put(d, k, v) == [x \in DOMAIN d \cup {k} |-> IF x = k THEN v ELSE d[x]]
\* k in d, for an object read from JSON
HasKey(d, k) == k \in DOMAIN d
\* d.get(k, default)
Get(d, k, default) == IF k \in DOMAIN d THEN d[k] ELSE default

NoFile == [st |-> "absent"]
\* json.dump(value, f) into a file, and what json.load gives back: str keys,
\* numbers, lists and dicts come back as they went in
JsonFile(value) == [st |-> "json", value |-> value]

\* cache files as something other than this program leaves them: not readable,
\* bytes that are no text, text that is no JSON, and a JSON object whose entry
\* lacks the keys mtime, size and data
DamagedCaches ==
    { [st |-> "unreadable"], [st |-> "undecodable"], [st |-> "badjson"],
      JsonFile([n \in {NameJsx} |-> EmptyMap]) }

\* package.json: missing, not JSON, or an object with or without "dependencies"
PkgMissing == [st |-> "missing"]
PkgInvalid == [st |-> "invalid"]
\* bytes that do not decode as text (a UTF-16 file, say)
PkgUndecodable == [st |-> "undecodable"]
PkgObject(data) == [st |-> "json", data |-> data]
PkgNoDeps == PkgObject([name |-> "project"])
PkgWith(deps) == PkgObject([name |-> "project", dependencies |-> deps])
PackageJsons ==
    {PkgMissing, PkgInvalid, PkgUndecodable, PkgNoDeps, PkgWith({}), PkgWith({SpecPkg})}

NoStat == [mtime |-> 0, size |-> 0]
BlankFrame ==
    [cache |-> EmptyMap,
     new_cache |-> EmptyMap,
     final_artifacts |-> <<>>,
     required_dependencies |-> {},
     processed_files |-> 0,
     cached_files |-> 0,
     file_stat |-> NoStat]

Ev(op, name, ok) == [op |-> op, name |-> name, ok |-> ok]

NoResult == [status |-> "none", at |-> "", value |-> <<>>]
Running == [status |-> "running", at |-> "", value |-> <<>>]
Raised(at) == [status |-> "raised", at |-> at, value |-> <<>>]
Returned(value) == [status |-> "returned", at |-> "", value |-> value]

InitDirs ==
    { d \in [Names -> {Absent, DirEntry} \cup {FileEntry(1, 1, c) : c \in Contents}] :
        /\ \A n \in RegularNames : d[n] # DirEntry
        /\ d[NameHidden] \in {Absent, FileEntry(1, 1, ContentDeps)}
        /\ d[NameSub] \in {Absent, DirEntry}
        /\ (d[NameHidden] = Absent) <=> (d[NameSub] = Absent) }

Init ==
    /\ dir \in InitDirs
    /\ cacheFile = NoFile
    /\ manifestFile = NoFile
    /\ packageJson = PkgNoDeps
    /\ pc = "idle"
    /\ frame = BlankFrame
    /\ todo = <<>>
    /\ events = <<>>
    /\ result = NoResult
    /\ prev = [result |-> NoResult, events |-> <<>>, frame |-> BlankFrame,
               manifestFile |-> NoFile, cacheFile |-> NoFile, quiet |-> FALSE]
    /\ envSince = FALSE
    /\ nScans = 0
    /\ nEnv = 0
    /\ nFaults = 0

(***************************************************************************)
(* _load_cache                                                             *)
(***************************************************************************)
\* a _load_cache that never gets to the stored entries
LoadCache_AlwaysEmpty(cf) == [raised |-> cf.st = "undecodable", value |-> EmptyMap]

\* {} when the file is absent, on IOError and on JSONDecodeError; the
\* UnicodeDecodeError of f.read() is neither and leaves _load_cache
LoadCache(cf) ==
    CASE cf.st = "absent" -> [raised |-> FALSE, value |-> EmptyMap]
      [] cf.st = "unreadable" -> [raised |-> FALSE, value |-> EmptyMap]
      [] cf.st = "badjson" -> [raised |-> FALSE, value |-> EmptyMap]
      [] cf.st = "undecodable" -> [raised |-> TRUE, value |-> EmptyMap]
      [] cf.st = "json" -> [raised |-> FALSE, value |-> cf.value]

(***************************************************************************)
(* scan_artifacts: the loop                                                *)
(***************************************************************************)
\* self.artifacts_dir.glob("*"): every entry, hidden ones and the cache file too
Glob ==
    {n \in Names : dir[n].kind # "absent"}
        \cup (IF cacheFile.st # "absent" THEN {CacheName} ELSE {})

RECURSIVE Listings(_)
\* the orders in which the directory may list the entries of S
Listings(S) ==
    IF S = {} THEN {<<>>}
    ELSE UNION {{<<x>> \o rest : rest \in Listings(S \ {x})} : x \in S}

\* sorted(self.artifacts_dir.glob("*")), for each set of entries the directory
\* may hold: what sorted() returns, over all the orders of listing
SortedGlob ==
    {<<S, {SortedList(listing) : listing \in Listings(S)}>> :
        S \in SUBSET (Names \cup {CacheName})}

\* file_path.is_file()
IsFile(name) ==
    IF name = CacheName THEN cacheFile.st # "absent" ELSE dir[name].kind = "file"

\* a test that passes over what is no regular file, and takes hidden files
Skipped_DirectoriesOnly(name) == ~IsFile(name)

\* the continue of line 235
Skipped(name) == ~IsFile(name) \/ StartsWithDot(name)

\* file_path.stat()
Stat(name) == [mtime |-> dir[name].mtime, size |-> dir[name].size]

\* the condition of line 240, or the append of line 242, raises KeyError on an
\* entry without the key it reads
LookupRaises(cache, file_id, file_stat) ==
    /\ file_id \in DOMAIN cache
    /\ LET e == cache[file_id]
       IN  \/ ~HasKey(e, "mtime")
           \/ /\ e.mtime = file_stat.mtime
              /\ \/ ~HasKey(e, "size")
                 \/ e.size = file_stat.size /\ ~HasKey(e, "data")

\* a cache test that asks for an entry under the name, whatever it holds
CacheHit_NameOnly(cache, file_id, file_stat) == file_id \in DOMAIN cache

\* a cache test that compares the modification time alone
CacheHit_IgnoresSize(cache, file_id, file_stat) ==
    /\ file_id \in DOMAIN cache
    /\ cache[file_id].mtime = file_stat.mtime

\* a cache test that compares the size alone
CacheHit_IgnoresMtime(cache, file_id, file_stat) ==
    /\ file_id \in DOMAIN cache
    /\ cache[file_id].size = file_stat.size

\* the condition of line 240
CacheHit(cache, file_id, file_stat) ==
    /\ file_id \in DOMAIN cache
    /\ cache[file_id].mtime = file_stat.mtime
    /\ cache[file_id].size = file_stat.size

\* a processing that files the cache entry under the stem of the name
ProcessFile_KeyedByStem(f, file_id, file_stat, content) ==
    [f EXCEPT
        !.required_dependencies = @ \cup SetOf(ExtractImports(content)),
        !.final_artifacts = Append(@, ArtifactData(file_id, file_stat, content)),
        !.new_cache = Put(@, Stem(file_id), CacheEntry(file_id, file_stat, content))]

\* lines 254-293: the file was read
ProcessFile(f, file_id, file_stat, content) ==
    [f EXCEPT
        !.required_dependencies = @ \cup SetOf(ExtractImports(content)),
        !.final_artifacts = Append(@, ArtifactData(file_id, file_stat, content)),
        !.new_cache = Put(@, file_id, CacheEntry(file_id, file_stat, content))]

\* a new cache that starts as a copy of the loaded one
InitialNewCache_CopiesOld(cache) == cache

\* line 224: new_cache = {}
InitialNewCache(cache) == EmptyMap

\* a hit that derives the record and the entry from the file once more
UseCache_Reparses(f, file_id) ==
    [ProcessFile(f, file_id, Stat(file_id), dir[file_id].content)
        EXCEPT !.cached_files = @ + 1]

\* a hit that leaves the stored dependency list out of the set
UseCache_DropsDependencies(f, file_id) ==
    [f EXCEPT
        !.final_artifacts = Append(@, f.cache[file_id].data),
        !.new_cache = Put(@, file_id, f.cache[file_id]),
        !.cached_files = @ + 1]

\* a hit that carries the entry forward and lists no record for the file
UseCache_SkipsArtifact(f, file_id) ==
    [f EXCEPT
        !.new_cache = Put(@, file_id, f.cache[file_id]),
        !.required_dependencies =
            @ \cup SetOf(Get(f.cache[file_id], "dependencies", <<>>)),
        !.cached_files = @ + 1]

\* lines 242-245: the file is unchanged
UseCache(f, file_id) ==
    [f EXCEPT
        !.final_artifacts = Append(@, f.cache[file_id].data),
        !.new_cache = Put(@, file_id, f.cache[file_id]),
        !.required_dependencies =
            @ \cup SetOf(Get(f.cache[file_id], "dependencies", <<>>)),
        !.cached_files = @ + 1]

\* a failure that carries the older cache entry of the file forward
FailFile_KeepsOldEntry(f, file_id) ==
    IF file_id \in DOMAIN f.cache
    THEN [f EXCEPT !.new_cache = Put(@, file_id, f.cache[file_id])]
    ELSE f

\* lines 295-296: open or read raised; nothing of the file is kept
FailFile(f, file_id) == f

\* open(file_path, 'r', encoding='utf-8') and f.read() succeed
Readable(name) == dir[name].kind = "file" /\ dir[name].content.decodable

ScanBegin ==
    /\ pc = "idle"
    /\ nScans < MaxScans
    /\ nScans' = nScans + 1
    /\ prev' = [result |-> result, events |-> events, frame |-> frame,
                manifestFile |-> manifestFile, cacheFile |-> cacheFile,
                quiet |-> ~envSince]
    /\ envSince' = FALSE
    /\ LET r == LoadCache(cacheFile)
       IN  IF r.raised
           THEN /\ pc' = "idle"
                /\ result' = Raised("load")
                /\ frame' = BlankFrame
                /\ todo' = <<>>
                /\ events' = <<Ev("load_cache", CacheName, FALSE)>>
           ELSE /\ pc' = "loop"
                /\ result' = Running
                /\ frame' = [BlankFrame EXCEPT !.cache = r.value,
                                               !.new_cache = InitialNewCache(r.value)]
                /\ \E entry \in SortedGlob :
                      entry[1] = Glob /\ todo' \in entry[2]
                /\ events' = <<Ev("load_cache", CacheName, TRUE)>>
    /\ UNCHANGED <<dir, cacheFile, manifestFile, packageJson, nEnv, nFaults>>

\* one turn of the loop up to the cache decision
ScanFile ==
    /\ pc = "loop"
    /\ todo # <<>>
    /\ LET file_id == Head(todo)
       IN  IF Skipped(file_id)
           THEN /\ todo' = Tail(todo)
                /\ UNCHANGED <<pc, frame, events, result>>
           ELSE LET file_stat == Stat(file_id)
                IN  IF LookupRaises(frame.cache, file_id, file_stat)
                    THEN /\ pc' = "idle"
                         /\ result' = Raised("lookup")
                         /\ events' = Append(events, Ev("stat", file_id, FALSE))
                         /\ UNCHANGED <<frame, todo>>
                    ELSE IF CacheHit(frame.cache, file_id, file_stat)
                    THEN /\ frame' = UseCache(frame, file_id)
                         /\ todo' = Tail(todo)
                         /\ events' = Append(events, Ev("hit", file_id, TRUE))
                         /\ UNCHANGED <<pc, result>>
                    ELSE /\ frame' = [frame EXCEPT !.processed_files = @ + 1,
                                                   !.file_stat = file_stat]
                         /\ pc' = "read"
                         /\ events' = Append(events, Ev("miss", file_id, TRUE))
                         /\ UNCHANGED <<todo, result>>
    /\ UNCHANGED <<dir, cacheFile, manifestFile, packageJson, prev, envSince,
                   nScans, nEnv, nFaults>>

\* a try block that persists the cache after every file it has processed
ReadFile_SavesEachEntry ==
    /\ pc = "read"
    /\ LET file_id == Head(todo)
       IN  IF Readable(file_id)
           THEN LET f == ProcessFile(frame, file_id, frame.file_stat,
                                     dir[file_id].content)
                IN  /\ frame' = f
                    /\ cacheFile' = JsonFile(f.new_cache)
                    /\ events' = Append(Append(events, Ev("open", file_id, TRUE)),
                                        Ev("save_cache", <<>>, TRUE))
           ELSE /\ frame' = FailFile(frame, file_id)
                /\ events' = Append(events, Ev("open", file_id, FALSE))
                /\ UNCHANGED cacheFile
    /\ todo' = Tail(todo)
    /\ pc' = "loop"
    /\ UNCHANGED <<dir, manifestFile, packageJson, result, prev,
                   envSince, nScans, nEnv, nFaults>>

\* a try block that rewrites the manifest after every file it has processed
ReadFile_WritesManifestEachEntry ==
    /\ pc = "read"
    /\ LET file_id == Head(todo)
       IN  IF Readable(file_id)
           THEN LET f == ProcessFile(frame, file_id, frame.file_stat,
                                     dir[file_id].content)
                IN  /\ frame' = f
                    /\ manifestFile' = JsonFile(f.final_artifacts)
                    /\ events' = Append(events, Ev("open", file_id, TRUE))
           ELSE /\ frame' = FailFile(frame, file_id)
                /\ events' = Append(events, Ev("open", file_id, FALSE))
                /\ UNCHANGED manifestFile
    /\ todo' = Tail(todo)
    /\ pc' = "loop"
    /\ UNCHANGED <<dir, cacheFile, packageJson, result, prev,
                   envSince, nScans, nEnv, nFaults>>

\* a try block that takes the stat of the file again once it has read it
ReadFile_StatsAgain ==
    /\ pc = "read"
    /\ LET file_id == Head(todo)
       IN  IF Readable(file_id)
           THEN /\ frame' = ProcessFile(frame, file_id, Stat(file_id),
                                        dir[file_id].content)
                /\ events' = Append(events, Ev("open", file_id, TRUE))
           ELSE /\ frame' = FailFile(frame, file_id)
                /\ events' = Append(events, Ev("open", file_id, FALSE))
    /\ todo' = Tail(todo)
    /\ pc' = "loop"
    /\ UNCHANGED <<dir, cacheFile, manifestFile, packageJson, result, prev,
                   envSince, nScans, nEnv, nFaults>>

\* the try block of a new or modified file
ReadFile ==
    /\ pc = "read"
    /\ LET file_id == Head(todo)
       IN  IF Readable(file_id)
           THEN /\ frame' = ProcessFile(frame, file_id, frame.file_stat,
                                        dir[file_id].content)
                /\ events' = Append(events, Ev("open", file_id, TRUE))
           ELSE /\ frame' = FailFile(frame, file_id)
                /\ events' = Append(events, Ev("open", file_id, FALSE))
    /\ todo' = Tail(todo)
    /\ pc' = "loop"
    /\ UNCHANGED <<dir, cacheFile, manifestFile, packageJson, result, prev,
                   envSince, nScans, nEnv, nFaults>>

(***************************************************************************)
(* update_dependencies and run_command                                     *)
(***************************************************************************)
\* current_deps = package_data.get("dependencies", {}), by its keys
CurrentDeps(pj) == Get(pj.data, "dependencies", {})

\* a selection that leaves the baseline set out of account
NewDeps_IgnoresBaseline(required_deps, pj) ==
    {dep \in required_deps : dep \notin CurrentDeps(pj)}

\* a selection that leaves the declared dependencies out of account
NewDeps_IgnoresDeclared(required_deps, pj) ==
    {dep \in required_deps : dep \notin base_dependencies}

\* new_deps_to_install, as a set
NewDeps(required_deps, pj) ==
    {dep \in required_deps : dep \notin CurrentDeps(pj) /\ dep \notin base_dependencies}

\* the orders in which "for dep in required_deps" can meet the elements of a set
Orders(S) ==
    {o \in [1..Cardinality(S) -> S] :
        \A i, j \in 1..Cardinality(S) : o[i] = o[j] => i = j}

AtLatest == <<"@", "l", "a", "t", "e", "s", "t">>

\* f"npm install {deps_str}", word by word
InstallCommand(deps) ==
    <<"npm", "install">> \o [i \in 1..Len(deps) |-> deps[i] \o AtLatest]

\* commands that name the first of the missing specifiers only
InstallCommands_FirstOnly(new_deps_to_install) ==
    <<InstallCommand(<<new_deps_to_install[1]>>)>>

\* the commands update_dependencies runs for new_deps_to_install: one for all
InstallCommands(new_deps_to_install) == <<InstallCommand(new_deps_to_install)>>

\* the print of line 334, then the commands handed to run_command
RunEvents(new_deps_to_install, commands, ok) ==
    <<Ev("installing", SetOf(new_deps_to_install), TRUE)>>
        \o [i \in 1..Len(commands) |-> Ev("run_command", commands[i], ok)]

\* what a successful npm install leaves in package.json when it saves
Declared(pj, deps) ==
    PkgObject([k \in DOMAIN pj.data \cup {"dependencies"} |->
                  IF k = "dependencies" THEN CurrentDeps(pj) \cup deps ELSE pj.data[k]])

\* line 301: the set is empty, update_dependencies is not called
NoReconcile ==
    /\ pc = "loop"
    /\ todo = <<>>
    /\ frame.required_dependencies = {}
    /\ pc' = "manifest"
    /\ UNCHANGED <<dir, cacheFile, manifestFile, packageJson, frame, todo, events,
                   result, prev, envSince, nScans, nEnv, nFaults>>

UpdateDependencies ==
    /\ pc = "loop"
    /\ todo = <<>>
    /\ frame.required_dependencies # {}
    /\ LET required_deps == frame.required_dependencies
           called == Append(events, Ev("update_dependencies", required_deps, TRUE))
           \* package.json was loaded: current_deps is what it declares
           loaded == Append(called, Ev("read_package_json",
                                       CurrentDeps(packageJson), TRUE))
       IN  \/ \* package.json cannot be read or parsed: logged, return
              /\ packageJson.st \in {"missing", "invalid"}
              /\ events' = Append(called, Ev("read_package_json", <<>>, FALSE))
              /\ pc' = "manifest"
              /\ UNCHANGED <<packageJson, result, nFaults>>
           \/ \* its bytes do not decode: the UnicodeDecodeError of json.load is
              \* neither IOError nor JSONDecodeError and nothing catches it
              /\ packageJson.st = "undecodable"
              /\ events' = Append(called, Ev("decode_package_json", <<>>, FALSE))
              /\ pc' = "idle"
              /\ result' = Raised("package_json")
              /\ UNCHANGED <<packageJson, nFaults>>
           \/ \* nothing to install
              /\ packageJson.st = "json"
              /\ NewDeps(required_deps, packageJson) = {}
              /\ events' = loaded
              /\ pc' = "manifest"
              /\ UNCHANGED <<packageJson, result, nFaults>>
           \/ \* the install command succeeds
              /\ packageJson.st = "json"
              /\ NewDeps(required_deps, packageJson) # {}
              /\ \E order \in Orders(NewDeps(required_deps, packageJson)),
                    saves \in BOOLEAN :
                    /\ events' = loaded \o RunEvents(order, InstallCommands(order), TRUE)
                    /\ packageJson' = IF saves
                                      THEN Declared(packageJson, SetOf(order))
                                      ELSE packageJson
              /\ pc' = "manifest"
              /\ UNCHANGED <<result, nFaults>>
           \/ \* the install command exits non-zero: run_command re-raises
              \* CalledProcessError (check=True) and nothing catches it
              /\ packageJson.st = "json"
              /\ NewDeps(required_deps, packageJson) # {}
              /\ nFaults < MaxFaults
              /\ \E order \in Orders(NewDeps(required_deps, packageJson)) :
                    events' = loaded \o RunEvents(order, <<InstallCommands(order)[1]>>, FALSE)
              /\ nFaults' = nFaults + 1
              /\ pc' = "idle"
              /\ result' = Raised("install")
              /\ UNCHANGED packageJson
    /\ UNCHANGED <<dir, cacheFile, manifestFile, frame, todo, prev, envSince,
                   nScans, nEnv>>

(***************************************************************************)
(* scan_artifacts: the manifest, _save_cache, return                       *)
(***************************************************************************)
\* a manifest write whose IOError leaves scan_artifacts
WriteManifest_FailureEscapes ==
    /\ pc = "manifest"
    /\ \/ /\ manifestFile' = JsonFile(frame.final_artifacts)
          /\ events' = Append(events, Ev("write_manifest", <<>>, TRUE))
          /\ pc' = "save"
          /\ UNCHANGED <<nFaults, result>>
       \/ /\ nFaults < MaxFaults
          /\ nFaults' = nFaults + 1
          /\ \E truncated \in BOOLEAN :
                manifestFile' = IF truncated THEN [st |-> "partial"] ELSE manifestFile
          /\ events' = Append(events, Ev("write_manifest", <<>>, FALSE))
          /\ pc' = "idle"
          /\ result' = Raised("manifest")
    /\ UNCHANGED <<dir, cacheFile, packageJson, frame, todo, prev,
                   envSince, nScans, nEnv>>

\* a manifest write that keeps the records of the file it finds and adds the
\* new ones after them
WriteManifest_Merges ==
    /\ pc = "manifest"
    /\ \/ /\ manifestFile' =
                JsonFile((IF manifestFile.st = "json" THEN manifestFile.value ELSE <<>>)
                            \o frame.final_artifacts)
          /\ events' = Append(events, Ev("write_manifest", <<>>, TRUE))
          /\ UNCHANGED nFaults
       \/ /\ nFaults < MaxFaults
          /\ nFaults' = nFaults + 1
          /\ \E truncated \in BOOLEAN :
                manifestFile' = IF truncated THEN [st |-> "partial"] ELSE manifestFile
          /\ events' = Append(events, Ev("write_manifest", <<>>, FALSE))
    /\ pc' = "save"
    /\ UNCHANGED <<dir, cacheFile, packageJson, frame, todo, result, prev,
                   envSince, nScans, nEnv>>

WriteManifest ==
    /\ pc = "manifest"
    /\ \/ /\ manifestFile' = JsonFile(frame.final_artifacts)
          /\ events' = Append(events, Ev("write_manifest", <<>>, TRUE))
          /\ UNCHANGED nFaults
       \/ \* IOError: from open (the file is as it was) or while writing (a
          \* truncated file); logged
          /\ nFaults < MaxFaults
          /\ nFaults' = nFaults + 1
          /\ \E truncated \in BOOLEAN :
                manifestFile' = IF truncated THEN [st |-> "partial"] ELSE manifestFile
          /\ events' = Append(events, Ev("write_manifest", <<>>, FALSE))
    /\ pc' = "save"
    /\ UNCHANGED <<dir, cacheFile, packageJson, frame, todo, result, prev,
                   envSince, nScans, nEnv>>

\* a _save_cache whose IOError leaves it, and scan_artifacts with it
SaveCache_FailureEscapes ==
    /\ pc = "save"
    /\ \/ /\ cacheFile' = JsonFile(frame.new_cache)
          /\ events' = Append(events, Ev("save_cache", <<>>, TRUE))
          /\ result' = Returned(frame.final_artifacts)
          /\ UNCHANGED nFaults
       \/ /\ nFaults < MaxFaults
          /\ nFaults' = nFaults + 1
          /\ \E truncated \in BOOLEAN :
                cacheFile' = IF truncated THEN [st |-> "badjson"] ELSE cacheFile
          /\ events' = Append(events, Ev("save_cache", <<>>, FALSE))
          /\ result' = Raised("save")
    /\ pc' = "idle"
    /\ UNCHANGED <<dir, manifestFile, packageJson, frame, todo, prev, envSince,
                   nScans, nEnv>>

\* _save_cache(new_cache), then return final_artifacts
SaveCache ==
    /\ pc = "save"
    /\ \/ /\ cacheFile' = JsonFile(frame.new_cache)
          /\ events' = Append(events, Ev("save_cache", <<>>, TRUE))
          /\ UNCHANGED nFaults
       \/ \* IOError: a warning; the file is as it was, or cut short (no JSON)
          /\ nFaults < MaxFaults
          /\ nFaults' = nFaults + 1
          /\ \E truncated \in BOOLEAN :
                cacheFile' = IF truncated THEN [st |-> "badjson"] ELSE cacheFile
          /\ events' = Append(events, Ev("save_cache", <<>>, FALSE))
    /\ pc' = "idle"
    /\ result' = Returned(frame.final_artifacts)
    /\ UNCHANGED <<dir, manifestFile, packageJson, frame, todo, prev, envSince,
                   nScans, nEnv>>

(***************************************************************************)
(* The world around the scanner, between two scans.                        *)
(***************************************************************************)
EnvFrame ==
    /\ pc = "idle"
    /\ nEnv < MaxEnv
    /\ nEnv' = nEnv + 1
    /\ envSince' = TRUE
    /\ UNCHANGED <<manifestFile, pc, frame, todo, events, result, prev, nScans,
                   nFaults>>

\* a file is created, edited, touched or made unreadable
WriteFile ==
    /\ EnvFrame
    /\ \E n \in RegularNames, m \in 1..MaxMtime, s \in 1..MaxSize, c \in Contents :
          /\ dir[n] # FileEntry(m, s, c)
          /\ dir' = [dir EXCEPT ![n] = FileEntry(m, s, c)]
    /\ UNCHANGED <<cacheFile, packageJson>>

RemoveEntry ==
    /\ EnvFrame
    /\ \E n \in Names :
          /\ dir[n] # Absent
          /\ dir' = [dir EXCEPT ![n] = Absent]
    /\ UNCHANGED <<cacheFile, packageJson>>

\* a hidden file or a subdirectory appears
MakeEntry ==
    /\ EnvFrame
    /\ \E n \in {NameHidden, NameSub} :
          /\ dir[n] = Absent
          /\ dir' = [dir EXCEPT ![n] = IF n = NameHidden
                                       THEN FileEntry(1, 1, ContentDeps)
                                       ELSE DirEntry]
    /\ UNCHANGED <<cacheFile, packageJson>>

\* the cache file is removed or damaged
DamageCache ==
    /\ EnvFrame
    /\ \E c \in DamagedCaches \cup {NoFile} :
          /\ c # cacheFile
          /\ cacheFile' = c
    /\ UNCHANGED <<dir, packageJson>>

EditPackageJson ==
    /\ EnvFrame
    /\ \E p \in PackageJsons :
          /\ p # packageJson
          /\ packageJson' = p
    /\ UNCHANGED <<dir, cacheFile>>

Next ==
    \/ ScanBegin
    \/ ScanFile
    \/ ReadFile
    \/ NoReconcile
    \/ UpdateDependencies
    \/ WriteManifest
    \/ SaveCache
    \/ WriteFile
    \/ RemoveEntry
    \/ MakeEntry
    \/ DamageCache
    \/ EditPackageJson

Spec == Init /\ [][Next]_vars

(***************************************************************************)
(* The add command: shutil.copy of the given file into claude_artifacts,   *)
(* then scan_artifacts.                                                    *)
(***************************************************************************)
\* lines 59-64: the file arrives under its own name, with the content and the
\* size of the given file and the modification time of the copy
AddCopy ==
    /\ pc = "idle"
    /\ ~envSince
    /\ nScans < MaxScans
    /\ \E n \in RegularNames, m \in 1..MaxMtime, s \in 1..MaxSize, c \in Contents :
          /\ dir' = [dir EXCEPT ![n] = FileEntry(m, s, c)]
          /\ events' = <<Ev("copy", n, TRUE)>>
    /\ envSince' = TRUE
    /\ UNCHANGED <<cacheFile, manifestFile, packageJson, pc, frame, todo, result,
                   prev, nScans, nEnv, nFaults>>

\* line 67: manager.scan_artifacts(), after the copy
AddScan == envSince /\ ScanBegin

AddNext ==
    \/ AddCopy
    \/ AddScan
    \/ ScanFile
    \/ ReadFile
    \/ NoReconcile
    \/ UpdateDependencies
    \/ WriteManifest
    \/ SaveCache

SpecAdd == Init /\ [][AddNext]_vars

(***************************************************************************)
(* Another process writes a file between file_path.stat() (line 238) and   *)
(* open(file_path) (line 251).                                             *)
(***************************************************************************)
\* the file of the turn gets a later modification time, or the same one and
\* a larger size: a fingerprint it never had
RaceWrite ==
    /\ pc = "read"
    /\ nEnv < MaxEnv
    /\ nEnv' = nEnv + 1
    /\ LET n == Head(todo)
       IN  \E m \in 1..MaxMtime, s \in 1..MaxSize, c \in Contents :
              /\ \/ m > dir[n].mtime
                 \/ m = dir[n].mtime /\ s > dir[n].size
              /\ dir' = [dir EXCEPT ![n] = FileEntry(m, s, c)]
              /\ events' = Append(events, Ev("modified", n, TRUE))
    /\ UNCHANGED <<cacheFile, manifestFile, packageJson, pc, frame, todo, result,
                   prev, envSince, nScans, nFaults>>

RaceNext ==
    \/ ScanBegin
    \/ ScanFile
    \/ RaceWrite
    \/ ReadFile
    \/ NoReconcile
    \/ UpdateDependencies
    \/ WriteManifest
    \/ SaveCache

SpecRace == Init /\ [][RaceNext]_vars

(***************************************************************************)
(* What a scan did, read off its events.                                   *)
(***************************************************************************)
\* the names of the events of evs with this op and an ok among oks
NamesOf(evs, op, oks) ==
    {evs[i].name : i \in {j \in 1..Len(evs) : evs[j].op = op /\ evs[j].ok \in oks}}

\* files served from the cache, files taken as new or modified, files opened,
\* and files whose processing raised
Served(evs) == NamesOf(evs, "hit", {TRUE})
Fresh(evs) == NamesOf(evs, "miss", {TRUE})
Opened(evs) == NamesOf(evs, "open", BOOLEAN)
Failed(evs) == NamesOf(evs, "open", {FALSE})

HasEvent(evs, op, oks) == \E i \in 1..Len(evs) : evs[i].op = op /\ evs[i].ok \in oks

\* neither the manifest write nor the cache write of this scan failed
WritesOk(evs) ==
    ~HasEvent(evs, "write_manifest", {FALSE}) /\ ~HasEvent(evs, "save_cache", {FALSE})

\* the non-hidden regular files of claude_artifacts
LiveFiles == {n \in Names : dir[n].kind = "file" /\ ~StartsWithDot(n)}

\* a scan is under way or has ended, and the directory is as that scan saw it
ScanView == result.status # "none" /\ ~envSince

\* the last scan returned, and nothing was changed from outside since
JustReturned == pc = "idle" /\ result.status = "returned" /\ ~envSince

\* the entry e carries exactly the fingerprint of the file name
SameFingerprint(e, name) ==
    /\ HasKey(e, "mtime") /\ HasKey(e, "size")
    /\ e.mtime = dir[name].mtime
    /\ e.size = dir[name].size

\* the file of the turn of the loop that stands between stat and open
Pending == IF pc = "read" THEN {Head(todo)} ELSE {}

(***************************************************************************)
(* C1                                                                      *)
(***************************************************************************)
\* C1: a file is served from the cache if and only if the cache loaded at the
\* start of the scan has an entry under its file name whose mtime and size both
\* equal the file's stat; every other file is opened and processed again.
C1_HitIffFingerprintMatches ==
    ScanView =>
        /\ pc # "idle" => frame.cache = LoadCache(prev.cacheFile).value
        /\ \A n \in Served(events) \cup Fresh(events) :
              /\ n \in Served(events) <=>
                    (n \in DOMAIN frame.cache /\ SameFingerprint(frame.cache[n], n))
              /\ n \in Fresh(events) \ Pending => n \in Opened(events)
              /\ n \in Served(events) => n \notin Opened(events)

\* a file with an entry whose size alone differs is processed again, beside a
\* file that is served from the cache
C1_Witness ==
    /\ ScanView
    /\ Served(events) # {}
    /\ \E n \in Fresh(events) \cap Opened(events) :
          /\ n \in DOMAIN frame.cache
          /\ frame.cache[n].mtime = dir[n].mtime
          /\ frame.cache[n].size # dir[n].size

(***************************************************************************)
(* C2                                                                      *)
(***************************************************************************)
\* C2: a failing install command does not abort the scan: the scan still
\* writes the manifest, saves the cache and returns.
C2_InstallFailureDoesNotAbort ==
    (pc = "idle" /\ HasEvent(events, "run_command", {FALSE})) =>
        /\ result.status = "returned"
        /\ HasEvent(events, "write_manifest", BOOLEAN)
        /\ HasEvent(events, "save_cache", BOOLEAN)

(***************************************************************************)
(* C3                                                                      *)
(***************************************************************************)
\* the last scan started right after the scan before it had returned, with
\* nothing changed in between, and no write of either scan failed
SecondRun ==
    /\ pc = "idle"
    /\ ~envSince
    /\ prev.quiet
    /\ prev.result.status = "returned"
    /\ WritesOk(prev.events)
    /\ WritesOk(events)

C4_DamagedCacheMeansFullRescan ==
    /\ result.status = "raised" => result.at \notin {"load", "lookup"}
    /\ (pc # "idle" /\ prev.cacheFile \in DamagedCaches \cup {NoFile}) =>
            frame.cache = EmptyMap

(***************************************************************************)
(* C5                                                                      *)
(***************************************************************************)
\* what the files that were served or read without error contribute
Contributed(evs) ==
    UNION {SetOf(Get(frame.cache[n], "dependencies", <<>>)) : n \in Served(evs)}
        \cup UNION {SetOf(ExtractImports(dir[n].content)) :
                        n \in (Fresh(evs) \cap Opened(evs)) \ Failed(evs)}

ArtifactPaths(artifacts) == {artifacts[i].path : i \in 1..Len(artifacts)}

\* C5: a file whose reading raises leaves no artifact, no specifier and no cache
\* entry, also when the loaded cache had an entry for it; the scan goes on
\* with the files after it, and the saved cache has no entry for it.
C5_FailedFileLeavesNothing ==
    ScanView =>
        /\ \A n \in Failed(events) :
              /\ n \notin DOMAIN frame.new_cache
              /\ RelativePath(n) \notin ArtifactPaths(frame.final_artifacts)
              /\ (JustReturned /\ HasEvent(events, "save_cache", {TRUE})) =>
                    (cacheFile.st = "json" /\ n \notin DOMAIN cacheFile.value)
        /\ frame.required_dependencies \subseteq Contributed(events)
        /\ result.status = "returned" =>
              Served(events) \cup Fresh(events) = LiveFiles

\* a file with an older cache entry fails, and the file after it is handled
C5_Witness ==
    /\ JustReturned
    /\ NameJs \in Failed(events) \cap DOMAIN frame.cache
    /\ NameJsx \in Served(events) \cup Fresh(events)
    /\ SpecPkg \notin frame.required_dependencies

(***************************************************************************)
(* C6                                                                      *)
(***************************************************************************)
CacheKeys(cf) == IF cf.st = "json" THEN DOMAIN cf.value ELSE {}
ManifestPaths(mf) == IF mf.st = "json" THEN ArtifactPaths(mf.value) ELSE {}
LivePaths == {RelativePath(n) : n \in LiveFiles}

\* the scan started without a cache file or with the one the scan before wrote
OwnCache ==
    \/ prev.cacheFile = NoFile
    \/ prev.result.status = "returned" /\ prev.cacheFile = JsonFile(prev.frame.new_cache)

Tracked ==
    IF prev.result.status = "returned" /\ prev.cacheFile = JsonFile(prev.frame.new_cache)
    THEN DOMAIN prev.frame.new_cache
    ELSE {}

\* the fingerprint of the file differs from the one the scan before stored
Touched(n) ==
    \/ prev.frame.new_cache[n].mtime # dir[n].mtime
    \/ prev.frame.new_cache[n].size # dir[n].size

\* C7: of the files the scan before has cached, the next scan reads again the
\* ones whose size or modification time changed since, and serves the
\* untouched ones from the cache.
C7_ChangedFileReprocessedSiblingCached ==
    ScanView =>
        /\ \A n \in (Tracked \cap (Served(events) \cup Fresh(events))) \ Pending :
              IF Touched(n)
              THEN n \in Fresh(events) /\ n \in Opened(events)
              ELSE n \in Served(events) /\ n \notin Opened(events)
        /\ result.status = "returned" =>
              Tracked \cap LiveFiles \subseteq Served(events) \cup Fresh(events)

\* one tracked file was touched and read again, its sibling was served
C7_Witness ==
    /\ JustReturned
    /\ \E n, m \in Tracked \cap LiveFiles :
          /\ Touched(n) /\ n \in Opened(events)
          /\ ~Touched(m) /\ m \in Served(events)

(***************************************************************************)
(* C8                                                                      *)
(***************************************************************************)
\* C8: on a cache hit the cached record is appended as it is, the whole entry
\* goes into the new cache as it is, its dependency list is taken over, and
\* the file is not opened.
C8_HitTakesEntryVerbatim ==
    result.status # "none" =>
        LET order == Sorted(DOMAIN frame.new_cache)
        IN  /\ Len(frame.final_artifacts) = Len(order)
            /\ Served(events) \subseteq DOMAIN frame.new_cache
            /\ Served(events) \cap Opened(events) = {}
            /\ \A i \in 1..Len(order) :
                  order[i] \in Served(events) =>
                      /\ frame.final_artifacts[i] = frame.cache[order[i]].data
                      /\ frame.new_cache[order[i]] = frame.cache[order[i]]
                      /\ SetOf(frame.cache[order[i]].dependencies)
                            \subseteq frame.required_dependencies

\* a hit on a file whose content was changed under an unchanged fingerprint:
\* reading it again would give another entry
C8_Witness ==
    /\ ScanView
    /\ \E n \in Served(events) :
          /\ dir[n].content.decodable
          /\ frame.cache[n] # CacheEntry(n, Stat(n), dir[n].content)

(***************************************************************************)
(* C9                                                                      *)
(***************************************************************************)
\* the loop of the scan is over
LoopDone ==
    /\ ScanView
    /\ \/ pc \in {"manifest", "save"}
       \/ pc = "idle" /\ result.status = "returned"
       \/ pc = "idle" /\ result.status = "raised" /\ result.at = "install"

\* the sets update_dependencies was called with in this scan
HandedOver == NamesOf(events, "update_dependencies", {TRUE})

\* C9: the set handed to update_dependencies is the union of the imports of
\* the files read in this scan and the stored dependency lists of the files
\* served from the cache.
C9_DependencySetIsUnion ==
    LoopDone =>
        /\ frame.required_dependencies = Contributed(events)
        /\ HandedOver = IF Contributed(events) = {} THEN {} ELSE {Contributed(events)}

\* a served file and a read file each bring a specifier the other lacks
C9_Witness ==
    /\ LoopDone
    /\ \E n \in Served(events), m \in (Fresh(events) \cap Opened(events)) \ Failed(events) :
          /\ SetOf(frame.cache[n].dependencies) \ SetOf(ExtractImports(dir[m].content)) # {}
          /\ SetOf(ExtractImports(dir[m].content)) \ SetOf(frame.cache[n].dependencies) # {}
    /\ HandedOver # {}

(***************************************************************************)
(* C10                                                                     *)
(***************************************************************************)
\* C10: for every specifier d that update_dependencies finds missing, the
\* command "npm install d@latest", for d alone, is run.
C10_OneInstallCommandPerSpecifier ==
    \A i \in 1..Len(events) :
        events[i].op = "installing" =>
            \A d \in events[i].name :
                \E j \in 1..Len(events) :
                    /\ events[j].op = "run_command"
                    /\ events[j].name = InstallCommand(<<d>>)

(***************************************************************************)
(* C11                                                                     *)
(***************************************************************************)
\* what package.json declared when update_dependencies loaded it in this
\* scan; nothing when it was not loaded
DeclaredAtRead(evs) == UNION NamesOf(evs, "read_package_json", {TRUE})

\* the events of evs that are install commands
RunIndices(evs) == {j \in 1..Len(evs) : evs[j].op = "run_command"}

\* the places, over all install commands of evs, where "d@latest" stands
InstallPlaces(evs, d) ==
    UNION {{<<j, k>> : k \in {w \in 3..Len(evs[j].name) :
                                 evs[j].name[w] = d \o AtLatest}} :
           j \in RunIndices(evs)}

\* the required specifiers that are neither declared nor in the baseline set
Missing(evs, required) ==
    {d \in required : d \notin DeclaredAtRead(evs) /\ d \notin base_dependencies}

\* every missing specifier stands in the install commands of the scan exactly
\* once, nothing else stands there, and nothing is run when none is missing
InstallsExactlyMissing(evs, required) ==
    /\ \A d \in Missing(evs, required) : Cardinality(InstallPlaces(evs, d)) = 1
    /\ \A j \in RunIndices(evs) :
          /\ Len(evs[j].name) > 2
          /\ \A w \in 3..Len(evs[j].name) :
                \E d \in Missing(evs, required) : evs[j].name[w] = d \o AtLatest
    /\ Missing(evs, required) = {} => RunIndices(evs) = {}

C12_BaselineNeverInstalled ==
    \A d \in base_dependencies :
        InstallPlaces(events, d) = {} /\ InstallPlaces(prev.events, d) = {}

\* a first scan that required clsx, which package.json does not declare, and
\* ran an install command for another specifier
C12_Witness ==
    /\ nScans = 1
    /\ LoopDone
    /\ SpecClsx \in frame.required_dependencies
    /\ HasEvent(events, "read_package_json", {TRUE})
    /\ SpecClsx \notin DeclaredAtRead(events)
    /\ InstallPlaces(events, SpecPkg) # {}

(***************************************************************************)
(* C13                                                                     *)
(***************************************************************************)
\* C13: a required specifier that package.json lists under "dependencies"
\* when update_dependencies loads it stands in no install command of that scan.
C13_DeclaredNeverInstalled ==
    /\ \A d \in DeclaredAtRead(events) : InstallPlaces(events, d) = {}
    /\ \A d \in DeclaredAtRead(prev.events) : InstallPlaces(prev.events, d) = {}

\* pkg is required and declared, x is required and not declared: the scan
\* ran an install command, for x
C13_Witness ==
    /\ LoopDone
    /\ {SpecPkg, SpecX} \subseteq frame.required_dependencies
    /\ SpecPkg \in DeclaredAtRead(events)
    /\ InstallPlaces(events, SpecX) # {}

(***************************************************************************)
(* C14                                                                     *)
(***************************************************************************)
\* the paths of the files of this scan that were served or read without error
HandledPaths(evs) ==
    {RelativePath(n) : n \in (Served(evs) \cup (Fresh(evs) \cap Opened(evs))) \ Failed(evs)}

\* C14: when the manifest write fails with an I/O error, the error is logged,
\* no exception leaves scan_artifacts, _save_cache is still called with the
\* new cache, and the scan returns the artifact sequence it has computed.
C14_ManifestFailureIsLogged ==
    HasEvent(events, "write_manifest", {FALSE}) =>
        /\ pc \in {"save", "idle"}
        /\ result.status # "raised"
        /\ pc = "idle" =>
              /\ result = Returned(frame.final_artifacts)
              /\ HasEvent(events, "save_cache", BOOLEAN)
              /\ (HasEvent(events, "save_cache", {TRUE}) /\ ~envSince) =>
                    cacheFile = JsonFile(frame.new_cache)
              /\ ~envSince => ArtifactPaths(result.value) = HandledPaths(events)

\* the manifest write failed; the scan saved a cache with an entry and
\* returned an artifact
C14_Witness ==
    /\ JustReturned
    /\ HasEvent(events, "write_manifest", {FALSE})
    /\ cacheFile = JsonFile(frame.new_cache)
    /\ frame.new_cache # EmptyMap
    /\ result.value # <<>>

(***************************************************************************)
(* C15                                                                     *)
(***************************************************************************)
\* C15: when the cache write fails with an I/O error, _save_cache reports it
\* and raises nothing: the scan returns its artifact sequence, and the
\* manifest it has written before stays as written.
C15_CacheFailureIsWarning ==
    HasEvent(events, "save_cache", {FALSE}) =>
        /\ pc = "idle"
        /\ result = Returned(frame.final_artifacts)
        /\ HasEvent(events, "write_manifest", {TRUE}) =>
              manifestFile = JsonFile(frame.final_artifacts)

\* the cache write failed after a manifest with a record was written
C15_Witness ==
    /\ pc = "idle"
    /\ HasEvent(events, "save_cache", {FALSE})
    /\ HasEvent(events, "write_manifest", {TRUE})
    /\ result.status = "returned"
    /\ result.value # <<>>
    /\ manifestFile = JsonFile(result.value)

(***************************************************************************)
(* C16                                                                     *)
(***************************************************************************)
\* the records of a manifest file
ManifestRecords(mf) == IF mf.st = "json" THEN SetOf(mf.value) ELSE {}

\* C16: after every scan that completes without a write error the manifest
\* file holds exactly the artifact sequence that scan returned; a record of
\* the manifest before is there only if the scan produced it again.
C16_ManifestIsWhatWasReturned ==
    (pc = "idle" /\ result.status = "returned" /\ WritesOk(events)) =>
        /\ manifestFile = JsonFile(result.value)
        /\ ManifestRecords(manifestFile) \cap ManifestRecords(prev.manifestFile)
              \subseteq SetOf(frame.final_artifacts)
        /\ ~envSince => ManifestPaths(manifestFile) = HandledPaths(events)

\* the manifest before had a record that this scan did not produce, and the
\* manifest after has none of it, beside a record both scans produced
C16_Witness ==
    /\ pc = "idle" /\ result.status = "returned" /\ WritesOk(events)
    /\ ManifestRecords(prev.manifestFile) \ ManifestRecords(manifestFile) # {}
    /\ ManifestRecords(prev.manifestFile) \cap ManifestRecords(manifestFile) # {}

(***************************************************************************)
(* C17                                                                     *)
(***************************************************************************)
\* the places in evs of the events with an op among ops
OpIndices(evs, ops) == {i \in 1..Len(evs) : evs[i].op \in ops}

\* the events of the loop over the files
FileOps == {"stat", "hit", "miss", "open"}

\* the events of update_dependencies
ReconcileOps == {"update_dependencies", "read_package_json", "installing", "run_command"}

\* C17: within one scan the cache file is read once, before any file is
\* examined, and written at most once, after every file has been handled;
\* update_dependencies runs before the manifest write and the manifest write
\* before the cache write.
C17_OrderWithinScan ==
    events # <<>> =>
        /\ OpIndices(events, {"load_cache"}) = {1}
        /\ Cardinality(OpIndices(events, {"save_cache"})) <= 1
        /\ Cardinality(OpIndices(events, {"write_manifest"})) <= 1
        /\ pc # "idle" => cacheFile = prev.cacheFile
        /\ pc \in {"loop", "read", "manifest"} => manifestFile = prev.manifestFile
        /\ \A s \in OpIndices(events, {"save_cache"}) :
              /\ \A i \in OpIndices(events, FileOps) : i < s
              /\ todo = <<>>
              /\ ~envSince =>
                    /\ Served(events) \cup Fresh(events) = LiveFiles
                    /\ Fresh(events) \subseteq Opened(events)
        /\ \A m \in OpIndices(events, {"write_manifest"}) :
              /\ \A i \in OpIndices(events, FileOps \cup ReconcileOps) : i < m
              /\ \A s \in OpIndices(events, {"save_cache"}) : m < s

\* a scan that served one file, read another, reconciled, wrote the manifest
\* and saved the cache
C17_Witness ==
    /\ JustReturned
    /\ Served(events) # {}
    /\ Fresh(events) \cap Opened(events) # {}
    /\ HasEvent(events, "run_command", {TRUE})
    /\ HasEvent(events, "write_manifest", {TRUE})
    /\ HasEvent(events, "save_cache", {TRUE})

(***************************************************************************)
(* C18                                                                     *)
(***************************************************************************)
\* the file name a record was made for: its path without "claude_artifacts/"
FileNameOf(artifact) == SubSeq(artifact.path, 3, Len(artifact.path))

\* the names of the records are strictly ascending
Ascending(artifacts) ==
    \A i, j \in 1..Len(artifacts) :
        i < j => StrLess(FileNameOf(artifacts[i]), FileNameOf(artifacts[j]))

\* C18: the artifact sequence a scan builds, returns and writes is in ascending
\* order of file name, in whatever order the directory lists its entries.
C18_ArtifactsAscendingByName ==
    /\ Ascending(frame.final_artifacts)
    /\ result.status = "returned" => Ascending(result.value)
    /\ manifestFile.st = "json" => Ascending(manifestFile.value)

\* a scan returned and wrote the records of a.js and a.jsx, in this order
C18_Witness ==
    /\ JustReturned
    /\ Len(result.value) = 2
    /\ FileNameOf(result.value[1]) = NameJs
    /\ FileNameOf(result.value[2]) = NameJsx
    /\ manifestFile = JsonFile(result.value)

(***************************************************************************)
(* C19                                                                     *)
(***************************************************************************)
\* the entries the scan has to pass over: hidden ones, the cache file among
\* them, and what is no regular file
PassedOver == {n \in Names \cup {CacheName} : StartsWithDot(n) \/ ~IsFile(n)}

\* C19: an entry whose name starts with '.', the cache file included, and an
\* entry that is no regular file are never looked up, opened, listed as an
\* artifact or given a cache entry, and bring no specifier into the set.
C19_HiddenAndNonFilesIgnored ==
    ScanView =>
        /\ \A n \in PassedOver :
              /\ n \notin Served(events) \cup Fresh(events) \cup Opened(events)
              /\ n \notin DOMAIN frame.new_cache
              /\ RelativePath(n) \notin ArtifactPaths(frame.final_artifacts)
              /\ (JustReturned /\ WritesOk(events)) =>
                    /\ n \notin CacheKeys(cacheFile)
                    /\ RelativePath(n) \notin ManifestPaths(manifestFile)
        /\ frame.required_dependencies \subseteq Contributed(events)

\* a scan over a directory that holds the cache file, a hidden file importing
\* pkg and a subdirectory returned an artifact and requires no pkg
C19_Witness ==
    /\ JustReturned
    /\ WritesOk(events)
    /\ prev.cacheFile # NoFile
    /\ dir[NameHidden].kind = "file"
    /\ SpecPkg \in SetOf(ExtractImports(dir[NameHidden].content))
    /\ dir[NameSub].kind = "dir"
    /\ result.value # <<>>
    /\ SpecPkg \notin frame.required_dependencies

(***************************************************************************)
(* C20                                                                     *)
(***************************************************************************)
\* import React from 'react'; import './local';
\* as the structural parse reads it (parses) and as the regex fallback does
ReactAndLocal(parses) ==
    [decodable |-> TRUE, parses |-> parses,
     stmts |-> <<FromStmt(<<"r", "e", "a", "c", "t">>),
                 BareStmt(<<".", "/", "l", "o", "c", "a", "l">>)>>,
     hasTags |-> FALSE, tagBody |-> <<>>]

\* the specifiers of the dependency lists of a cache
StoredDependencies(cache) ==
    UNION {SetOf(Get(cache[n], "dependencies", <<>>)) : n \in DOMAIN cache}

\* the files of this scan that were read without error, by the strategy that
\* extracted their imports
ReadBy(parses) ==
    {n \in (Fresh(events) \cap Opened(events)) \ Failed(events) :
        dir[n].content.parses = parses}

\* C20: no specifier that begins with '.' stands in a dependency list of the
\* cache a scan builds and writes, or in the set handed to
\* update_dependencies, by either extraction strategy; the content importing
\* 'react' and './local' gives exactly {react}.
C20_NoRelativeSpecifierKept ==
    /\ \A d \in StoredDependencies(frame.new_cache) : ~StartsWithDot(d)
    /\ \A d \in StoredDependencies(IF cacheFile.st = "json" THEN cacheFile.value
                                                            ELSE EmptyMap) :
          ~StartsWithDot(d)
    /\ \A d \in frame.required_dependencies : ~StartsWithDot(d)
    /\ \A handed \in HandedOver : \A d \in handed : ~StartsWithDot(d)
    /\ \A parses \in BOOLEAN :
          SetOf(ExtractImports(ReactAndLocal(parses))) = {<<"r", "e", "a", "c", "t">>}

\* a scan has read one file with a relative import by the structural parse and
\* another by the regex fallback, cached both and handed their specifiers over
C20_Witness ==
    /\ JustReturned
    /\ HasEvent(events, "save_cache", {TRUE})
    /\ HandedOver # {}
    /\ \E n \in ReadBy(TRUE), m \in ReadBy(FALSE) :
          /\ \E i \in 1..Len(dir[n].content.stmts) :
                StartsWithDot(dir[n].content.stmts[i].source)
          /\ \E i \in 1..Len(dir[m].content.stmts) :
                StartsWithDot(dir[m].content.stmts[i].source)
          /\ {n, m} \subseteq CacheKeys(cacheFile)
          /\ cacheFile.value[n].dependencies # <<>>
          /\ cacheFile.value[m].dependencies # <<>>

(***************************************************************************)
(* C21                                                                     *)
(***************************************************************************)
\* the non-relative specifiers of the import statements of a content
NonRelativeSpecifiers(content) ==
    {content.stmts[i].source : i \in {j \in 1..Len(content.stmts) :
        /\ content.stmts[j].source # <<>>
        /\ ~StartsWithDot(content.stmts[j].source)}}

\* C21: a file whose structural parse fails is not a failed file: it gets
\* an artifact and a cache entry, and the dependency list of the entry holds
\* the non-relative specifiers of all its from-imports and bare imports.
C21_FallbackFindsEveryImport ==
    ScanView =>
        \A n \in ReadBy(FALSE) :
            /\ n \in DOMAIN frame.new_cache
            /\ RelativePath(n) \in ArtifactPaths(frame.final_artifacts)
            /\ SetOf(frame.new_cache[n].dependencies)
                  = NonRelativeSpecifiers(dir[n].content)

(***************************************************************************)
(* C22                                                                     *)
(***************************************************************************)
\* claude_artifacts holds no entry, but for a cache file of this program's own
EmptyDirectory == (\A n \in Names : dir[n] = Absent) /\ OwnCache

\* C22: the scan of an empty directory raises nothing, calls no
\* update_dependencies and runs no install command, returns the empty
\* sequence, and writes an empty manifest and an empty cache.
C22_EmptyDirectoryScansToNothing ==
    (ScanView /\ EmptyDirectory) =>
        /\ result.status # "raised"
        /\ frame.final_artifacts = <<>>
        /\ frame.new_cache = EmptyMap
        /\ OpIndices(events, ReconcileOps) = {}
        /\ pc = "idle" =>
              /\ result = Returned(<<>>)
              /\ HasEvent(events, "write_manifest", {TRUE}) =>
                    manifestFile = JsonFile(<<>>)
              /\ HasEvent(events, "save_cache", {TRUE}) =>
                    cacheFile = JsonFile(EmptyMap)

\* the first scan, of a directory with nothing in it, has returned
C22_Witness ==
    /\ JustReturned
    /\ nScans = 1
    /\ prev.cacheFile = NoFile
    /\ \A n \in Names : dir[n] = Absent
    /\ result = Returned(<<>>)
    /\ manifestFile = JsonFile(<<>>)
    /\ cacheFile = JsonFile(EmptyMap)

(***************************************************************************)
(* C23                                                                     *)
(***************************************************************************)
\* the files of this scan that were served or read without error
Handled(evs) == (Served(evs) \cup (Fresh(evs) \cap Opened(evs))) \ Failed(evs)

\* the places of the records of artifacts that were made for the file name
RecordsOf(artifacts, name) ==
    {i \in 1..Len(artifacts) : artifacts[i].path = RelativePath(name)}

\* C23: every file gets a cache entry under its full file name and one record
\* of its own, with its stem as id, so a.js and a.jsx give two records with
\* the id "a" and two cache entries, in a first scan and in later ones.
C23_SameStemTwoArtifacts ==
    /\ Stem(NameJs) = Stem(NameJsx)
    /\ ScanView =>
          /\ \A n \in Handled(events) :
                /\ n \in DOMAIN frame.new_cache
                /\ frame.new_cache[n].data.path = RelativePath(n)
                /\ Cardinality(RecordsOf(frame.final_artifacts, n)) = 1
                /\ \A i \in RecordsOf(frame.final_artifacts, n) :
                      /\ frame.final_artifacts[i].id = Stem(n)
                      /\ frame.final_artifacts[i] = frame.new_cache[n].data
          /\ Len(frame.final_artifacts) = Cardinality(Handled(events))
          /\ (JustReturned /\ WritesOk(events)) =>
                /\ CacheKeys(cacheFile) = Handled(events)
                /\ manifestFile = JsonFile(frame.final_artifacts)

\* a later scan served one of a.js and a.jsx and read the other again; the
\* manifest has two records with the id "a" and the cache two entries
C23_Witness ==
    /\ JustReturned
    /\ WritesOk(events)
    /\ nScans = 2
    /\ Served(events) # {}
    /\ Fresh(events) \cap Opened(events) # {}
    /\ Handled(events) = {NameJs, NameJsx}
    /\ Len(manifestFile.value) = 2
    /\ manifestFile.value[1].id = <<"a">>
    /\ manifestFile.value[2].id = <<"a">>
    /\ manifestFile.value[1] # manifestFile.value[2]
    /\ CacheKeys(cacheFile) = {NameJs, NameJsx}

(***************************************************************************)
(* C24                                                                     *)
(***************************************************************************)
\* the scan of an add command has ended, by returning or by raising
AddFinished ==
    /\ pc = "idle"
    /\ ~envSince
    /\ prev.events # <<>>
    /\ prev.events[1].op = "copy"

\* the file name the add command has copied
Added == prev.events[1].name

\* C24: when the add command has finished, the copied file is in
\* claude_artifacts, the manifest has a record for it with the stem as id, and
\* each of its non-relative specifiers that is neither declared nor in the
\* baseline set stands in an install command (stated of a copied file that is
\* readable and was taken as new or modified, and of a manifest write and a
\* cache write that did not fail).
C24_AddListsAndInstalls ==
    (AddFinished /\ Readable(Added) /\ Added \in Fresh(events) /\ WritesOk(events)) =>
        /\ dir[Added].kind = "file"
        /\ manifestFile.st = "json"
        /\ \E i \in 1..Len(manifestFile.value) :
              /\ manifestFile.value[i].path = RelativePath(Added)
              /\ manifestFile.value[i].id = Stem(Added)
        /\ \A d \in NonRelativeSpecifiers(dir[Added].content) :
              (d \notin DeclaredAtRead(events) /\ d \notin base_dependencies) =>
                  InstallPlaces(events, d) # {}

(***************************************************************************)
(* C25                                                                     *)
(***************************************************************************)
RECURSIVE FullScanFrom(_, _)
\* the loop of scan_artifacts over names, from the frame f, with no cache
FullScanFrom(f, names) ==
    IF names = <<>> THEN f
    ELSE LET n == Head(names)
         IN  IF Skipped(n) THEN FullScanFrom(f, Tail(names))
             ELSE IF Readable(n)
             THEN FullScanFrom(ProcessFile(f, n, Stat(n), dir[n].content), Tail(names))
             ELSE FullScanFrom(FailFile(f, n), Tail(names))

\* what a scan of the directory as it is computes when it starts with an
\* empty cache
FullScan == FullScanFrom(BlankFrame, SortedList(Sorted(LiveFiles)))

\* two contents are the same text, readable or not
SameText(c, d) ==
    /\ c.stmts = d.stmts
    /\ c.parses = d.parses
    /\ c.hasTags = d.hasTags
    /\ c.tagBody = d.tagBody

\* the file has the text its cache entry was derived from (among Contents an
\* entry determines that text), or another fingerprint than the entry
UnchangedOrRestamped(cache, n) ==
    (n \in DOMAIN cache /\ SameFingerprint(cache[n], n)) =>
        \E c \in Contents :
            /\ c.decodable
            /\ cache[n] = CacheEntry(n, Stat(n), c)
            /\ SameText(c, dir[n].content)

\* the loop of a scan that loaded a cache of this program's own is over, and
\* no file was changed in content under an unchanged fingerprint
IncrementalCase ==
    /\ LoopDone
    /\ OwnCache
    /\ \A n \in LiveFiles : UnchangedOrRestamped(frame.cache, n)

\* C25 as stated: when every content change since a file was cached changed
\* its mtime or its size, the incremental scan computes the artifact sequence
\* and the dependency set that a scan with an empty cache computes.
C25_IncrementalEqualsFull ==
    IncrementalCase =>
        /\ frame.final_artifacts = FullScan.final_artifacts
        /\ frame.required_dependencies = FullScan.required_dependencies

\* C25 as amended: the same, when every file the scan serves from the cache
\* can still be opened and read.
C25_IncrementalEqualsFullWhenReadable ==
    (IncrementalCase /\ \A n \in Served(events) : Readable(n)) =>
        /\ frame.final_artifacts = FullScan.final_artifacts
        /\ frame.required_dependencies = FullScan.required_dependencies

\* a scan served one file, read another whose fingerprint had changed, and
\* computed what a full scan computes
C25_Witness ==
    /\ IncrementalCase
    /\ Served(events) # {}
    /\ \A n \in Served(events) : Readable(n)
    /\ \E n \in Fresh(events) \cap DOMAIN frame.cache : n \in Opened(events)
    /\ frame.required_dependencies # {}
    /\ frame.final_artifacts = FullScan.final_artifacts

(***************************************************************************)
(* C26                                                                     *)
(***************************************************************************)
\* the last scan ended by raising, and nothing was changed from outside since
JustRaised == pc = "idle" /\ result.status = "raised" /\ ~envSince

\* C26: when scan_artifacts raises, the manifest file and the cache file are
\* as they were when the scan started, and the scan has attempted no write.
C26_RaiseLeavesFilesAlone ==
    JustRaised =>
        /\ manifestFile = prev.manifestFile
        /\ cacheFile = prev.cacheFile
        /\ OpIndices(events, {"write_manifest", "save_cache"}) = {}

\* a scan that had read a file raised in the install command, with the
\* manifest and the cache of the scan before in place
C26_Witness ==
    /\ JustRaised
    /\ result.at = "install"
    /\ Fresh(events) \cap Opened(events) # {}
    /\ frame.final_artifacts # <<>>
    /\ manifestFile.st = "json"
    /\ manifestFile.value # frame.final_artifacts
    /\ cacheFile.st = "json"
    /\ cacheFile.value # frame.new_cache

(***************************************************************************)
(* C27                                                                     *)
(***************************************************************************)
\* C27: after a scan whose manifest write and cache write both succeeded, the
\* manifest has one record per entry of the cache file, in ascending order of
\* the keys, and each record is the data field of its entry.
C27_ManifestMirrorsCache ==
    (JustReturned /\ WritesOk(events)) =>
        /\ manifestFile.st = "json"
        /\ cacheFile.st = "json"
        /\ LET keys == Sorted(DOMAIN cacheFile.value)
           IN  /\ Len(manifestFile.value) = Len(keys)
               /\ \A i \in 1..Len(keys) :
                     manifestFile.value[i] = cacheFile.value[keys[i]].data

\* both files were written by a scan that served one file and read another
C27_Witness ==
    /\ JustReturned
    /\ WritesOk(events)
    /\ Served(events) # {}
    /\ (Fresh(events) \cap Opened(events)) \ Failed(events) # {}
    /\ Cardinality(DOMAIN cacheFile.value) = 2
    /\ Len(manifestFile.value) = 2

(***************************************************************************)
(* C28                                                                     *)
(***************************************************************************)
\* the specifiers in the stored dependency lists of the files served from
\* the cache in this scan
ServedDependencies ==
    UNION {SetOf(Get(frame.cache[n], "dependencies", <<>>)) : n \in Served(events)}

\* a specifier of a served file is installed again if it is neither declared
\* nor in the baseline set, and is not installed if it is
ServedReconciled ==
    \A d \in ServedDependencies :
        IF d \notin DeclaredAtRead(events) /\ d \notin base_dependencies
        THEN InstallPlaces(events, d) # {}
        ELSE InstallPlaces(events, d) = {}

\* C28 as stated: every scan reconciles the dependencies of the files it
\* serves from the cache: a specifier that is still neither declared in
\* package.json nor in the baseline set gets an install command again, also
\* when no file was reprocessed, and a declared one gets none.
C28_CachedDependenciesReconciled ==
    LoopDone => ServedReconciled

\* C28 as amended: the same, in every scan in which update_dependencies could
\* load package.json.
C28_CachedDependenciesReconciledWhenLoaded ==
    (LoopDone /\ ~HasEvent(events, "read_package_json", {FALSE})) => ServedReconciled

\* a scan that reprocessed no file ran an install command for a specifier of
\* a served file that an earlier install had left undeclared
C28_Witness ==
    /\ LoopDone
    /\ Fresh(events) = {}
    /\ Served(events) # {}
    /\ HasEvent(events, "read_package_json", {TRUE})
    /\ InstallPlaces(prev.events, SpecPkg) # {}
    /\ SpecPkg \in ServedDependencies
    /\ SpecPkg \notin DeclaredAtRead(events)
    /\ InstallPlaces(events, SpecPkg) # {}

(***************************************************************************)
(* C29                                                                     *)
(***************************************************************************)
\* update_dependencies was called in this scan and found package.json
\* missing or holding no valid JSON
PackageJsonUnusable ==
    /\ ScanView
    /\ HasEvent(events, "update_dependencies", {TRUE})
    /\ packageJson.st # "json"

\* C29: when package.json is missing or is not valid JSON, update_dependencies
\* logs the error and runs no install command, and the scan goes on to write
\* the manifest and the cache and returns its artifacts.
C29_UnusablePackageJsonIsLogged ==
    PackageJsonUnusable =>
        /\ RunIndices(events) = {}
        /\ result.status # "raised"
        /\ pc \in {"manifest", "save", "idle"}
        /\ pc = "idle" =>
              /\ result = Returned(frame.final_artifacts)
              /\ HasEvent(events, "write_manifest", BOOLEAN)
              /\ HasEvent(events, "save_cache", BOOLEAN)

(***************************************************************************)
(* C30                                                                     *)
(***************************************************************************)
\* the files that were written between their stat and their open in a scan
Raced(evs) == NamesOf(evs, "modified", {TRUE})

\* the scan before returned and this scan loaded the cache it wrote
FollowsWrittenScan ==
    /\ prev.result.status = "returned"
    /\ prev.cacheFile = JsonFile(prev.frame.new_cache)
    /\ result.status # "none"

\* C30: the cache entry of a file that was modified between its stat and its
\* open carries the earlier fingerprint, not the one the file has now; the
\* following scan does not serve the file from the cache, it reads it again.
C30_RacedContentNotServed ==
    /\ \A n \in Raced(events) \cap DOMAIN frame.new_cache :
          /\ ~SameFingerprint(frame.new_cache[n], n)
          /\ (pc = "idle" /\ HasEvent(events, "save_cache", {TRUE})) =>
                cacheFile.value[n] = frame.new_cache[n]
    /\ FollowsWrittenScan =>
          \A n \in Raced(prev.events) :
              /\ n \notin Served(events)
              /\ (result.status = "returned" /\ n \in LiveFiles) =>
                    n \in Fresh(events) \cap Opened(events)

\* the scan before cached what it read of a file during a race; this scan
\* found the entry, took the file as modified and read it again
C30_Witness ==
    /\ FollowsWrittenScan
    /\ pc = "idle"
    /\ result.status = "returned"
    /\ \E n \in Raced(prev.events) \cap DOMAIN frame.cache :
          /\ frame.cache[n].dependencies # <<>>
          /\ n \in Fresh(events) \cap Opened(events)
          /\ n \in DOMAIN frame.new_cache
          /\ SameFingerprint(frame.new_cache[n], n)

====
